---- MODULE Spec2Model ----
(***************************************************************************)
(* Secret reconstruction from (x, y) shares: the exact path of main.js     *)
(* (convertToDecimal, lagrangeInterpolationAtZero, parseInput) and the     *)
(* modular path of shamir.js (mod, modInverse, decodeYValue,               *)
(* reconstructSecret, processTestCase).                                    *)
(*                                                                         *)
(* A string is a sequence of one-character strings.  A function's outcome  *)
(* is a record [kind, val, err]: a returned value or a thrown error.       *)
(***************************************************************************)
EXTENDS Integers, Sequences, FiniteSets

VARIABLES
    input,     \* the arguments of the call under way, tagged with its kind
    exactOut,  \* outcome of the exact path (main.js)
    modOut,    \* outcome of the modular path (shamir.js)
    inv        \* modInverse's loop: [pc, a, x, ret]

vars == <<input, exactOut, modOut, inv>>

\* ----------------------------------------------------------------- bounds

\* Longest value string of the decoder inputs.
MaxLen == 3
\* Largest modulus and largest argument of the modInverse inputs.
MaxMod == 11
\* Largest prime, largest x-coordinate and largest share count of the
\* interpolator inputs.
MaxPrime == 7
MaxX == 4
MaxK == 3

\* ------------------------------------------------------------- outcomes

Pending == [kind |-> "pending", val |-> 0, err |-> ""]
Value(v) == [kind |-> "value", val |-> v, err |-> ""]
Error(e) == [kind |-> "error", val |-> 0, err |-> e]

InvIdle == [pc |-> "idle", a |-> 0, x |-> 0, ret |-> 0]

\* ----------------------------------------------------- BigInt arithmetic

Abs(n) == IF n < 0 THEN -n ELSE n

\* BigInt n % m: the remainder takes the sign of the dividend.
BigIntRem(n, m) == IF n < 0 THEN -((-n) % Abs(m)) ELSE n % Abs(m)

\* BigInt a / b for b # 0: the quotient is truncated toward zero.
BigIntDiv(a, b) ==
    IF (a < 0) = (b < 0) THEN Abs(a) \div Abs(b) ELSE -(Abs(a) \div Abs(b))

\* mod(n, m) of shamir.js.
modNoNormalise(n, m) == BigIntRem(n, m)
mod(n, m) == BigIntRem(BigIntRem(n, m) + m, m)

\* ------------------------------------------------------------- decoding

MinBase == 2
MaxBase == 36
NaN == -1
NoDigit == 99

\* The characters of the model's value strings.
Alphabet == {"0", "1", "2", "3", "7", "9", "a", "A", "z", "-", " "}

\* The value of a character as a digit, letters in either case.
DigitVal(ch) ==
    CASE ch = "0" -> 0 [] ch = "1" -> 1 [] ch = "2" -> 2 [] ch = "3" -> 3
      [] ch = "7" -> 7 [] ch = "9" -> 9 [] ch = "a" -> 10 [] ch = "A" -> 10
      [] ch = "z" -> 35 [] OTHER -> NoDigit

\* parseInt(digit, base) of a one-character string: radix 0 means 10, a radix
\* outside 2..36 gives NaN, and so does a character that is no digit of the radix.
parseInt(digit, base) ==
    LET radix == IF base = 0 THEN 10 ELSE base
    IN  IF radix < MinBase \/ radix > MaxBase THEN NaN
        ELSE IF DigitVal(digit) < radix THEN DigitVal(digit)
        ELSE NaN

\* The reduce of convertToDecimal from the i-th character on; BigInt(NaN) throws.
RECURSIVE ConvertReduce(_, _, _, _)
ConvertReduce(value, base, i, acc) ==
    IF i > Len(value) THEN Value(acc)
    ELSE LET d == parseInt(value[i], base)
         IN  IF d = NaN THEN Error("RangeError: NaN cannot be converted to a BigInt")
             ELSE ConvertReduce(value, base, i + 1, acc * base + d)

convertToDecimal(value, base) == ConvertReduce(value, base, 1, 0)

\* String.prototype.trim, as BigInt(string) applies it: blanks off both ends.
RECURSIVE TrimLeft(_)
TrimLeft(s) == IF s # <<>> /\ Head(s) = " " THEN TrimLeft(Tail(s)) ELSE s
RECURSIVE TrimRight(_)
TrimRight(s) ==
    IF s # <<>> /\ s[Len(s)] = " " THEN TrimRight(SubSeq(s, 1, Len(s) - 1)) ELSE s

IsDecimalDigits(s) == s # <<>> /\ \A i \in 1..Len(s) : DigitVal(s[i]) < 10

RECURSIVE DecimalValue(_, _, _)
DecimalValue(s, i, acc) ==
    IF i > Len(s) THEN acc ELSE DecimalValue(s, i + 1, acc * 10 + DigitVal(s[i]))

\* BigInt(valueString, base): the constructor takes one argument, so the base
\* is not used; the string is read as a decimal literal with an optional sign,
\* the empty (or blank) string is 0n, and anything else is a SyntaxError.
StringToBigInt(valueString, base) ==
    LET s == TrimRight(TrimLeft(valueString))
    IN  IF s = <<>> THEN Value(0)
        ELSE IF Head(s) = "-"
             THEN IF IsDecimalDigits(Tail(s)) THEN Value(-DecimalValue(Tail(s), 1, 0))
                  ELSE Error("SyntaxError")
        ELSE IF IsDecimalDigits(s) THEN Value(DecimalValue(s, 1, 0))
        ELSE Error("SyntaxError")

\* decodeYValue: the constructor's error rethrown as a decode failure.
decodeYValue(valueString, base) ==
    LET r == StringToBigInt(valueString, base)
    IN  IF r.kind = "error" THEN Error("Failed to decode value") ELSE r

\* ------------------------------------------------- decoder specification

Strings == UNION {[1..n -> Alphabet] : n \in 0..MaxLen}
DecodeBases == {0, 1, 2, 4, 10, 16, 36, 37}

InitDecode ==
    /\ input \in [tag : {"decode"}, value : Strings, base : DecodeBases]
    /\ exactOut = Pending
    /\ modOut = Pending
    /\ inv = InvIdle

ConvertToDecimalCall ==
    /\ input.tag = "decode"
    /\ exactOut = Pending
    /\ exactOut' = convertToDecimal(input.value, input.base)
    /\ UNCHANGED <<input, modOut, inv>>

DecodeYValueCall ==
    /\ input.tag = "decode"
    /\ modOut = Pending
    /\ modOut' = decodeYValue(input.value, input.base)
    /\ UNCHANGED <<input, exactOut, inv>>

NextDecode == ConvertToDecimalCall \/ DecodeYValueCall

SpecDecode == InitDecode /\ [][NextDecode]_vars

\* ----------------------------------------------------------- modInverse

\* The loop condition of modInverse's search, x < m.
InvLoopCondShort(x, m) == x < m - 1
InvLoopCond(x, m) == x < m

\* modInverse's search from candidate x on, a already reduced.
RECURSIVE ModInverseLoop(_, _, _)
ModInverseLoop(a, m, x) ==
    IF InvLoopCond(x, m)
    THEN IF mod(a * x, m) = 1 THEN Value(x) ELSE ModInverseLoop(a, m, x + 1)
    ELSE Error("No modular inverse")

modInverse(a, m) == ModInverseLoop(mod(a, m), m, 1)

\* ------------------------------------------- modInverse specification
\* The same search, one loop iteration per step.

InitInverse ==
    /\ input \in [tag : {"inverse"}, a : 0..MaxMod, m : 3..MaxMod]
    /\ exactOut = Pending
    /\ modOut = Pending
    /\ inv = InvIdle

\* a = mod(a, m); x = 1n
ModInverseEnter ==
    /\ input.tag = "inverse"
    /\ inv.pc = "idle"
    /\ inv' = [pc |-> "loop", a |-> mod(input.a, input.m), x |-> 1, ret |-> 0]
    /\ UNCHANGED <<input, exactOut, modOut>>

\* x < m and mod(a * x, m) === 1n: return x
ModInverseReturn ==
    /\ inv.pc = "loop"
    /\ InvLoopCond(inv.x, input.m)
    /\ mod(inv.a * inv.x, input.m) = 1
    /\ inv' = [inv EXCEPT !.pc = "returned", !.ret = inv.x]
    /\ modOut' = Value(inv.x)
    /\ UNCHANGED <<input, exactOut>>

\* x < m and the test fails: x++
ModInverseStep ==
    /\ inv.pc = "loop"
    /\ InvLoopCond(inv.x, input.m)
    /\ mod(inv.a * inv.x, input.m) # 1
    /\ inv' = [inv EXCEPT !.x = inv.x + 1]
    /\ UNCHANGED <<input, exactOut, modOut>>

\* the loop ran out: throw
ModInverseThrow ==
    /\ inv.pc = "loop"
    /\ ~InvLoopCond(inv.x, input.m)
    /\ inv' = [inv EXCEPT !.pc = "thrown"]
    /\ modOut' = Error("No modular inverse")
    /\ UNCHANGED <<input, exactOut>>

NextInverse ==
    ModInverseEnter \/ ModInverseReturn \/ ModInverseStep \/ ModInverseThrow

\* The call runs to its end once made: nothing suspends a synchronous loop.
SpecInverse == InitInverse /\ [][NextInverse]_vars /\ WF_vars(NextInverse)

\* ------------------------------------------- modular interpolation

\* diff = mod(xm - xj, prime)
DiffNoMod(xm, xj, prime) == xm - xj
Diff(xm, xj, prime) == mod(xm - xj, prime)

\* The inner loop of reconstructSecret over m # j, from m on: the
\* numerator and denominator of the j-th basis polynomial at 0, or the throw
\* at the first zero difference.
RECURSIVE BasisLoop(_, _, _, _, _, _)
BasisLoop(shares, prime, j, m, numerator, denominator) ==
    IF m > Len(shares) THEN [ok |-> TRUE, num |-> numerator, den |-> denominator]
    ELSE IF m = j THEN BasisLoop(shares, prime, j, m + 1, numerator, denominator)
    ELSE LET diff == Diff(shares[m].x, shares[j].x, prime)
         IN  IF diff = 0 THEN [ok |-> FALSE, num |-> 0, den |-> 0]
             ELSE BasisLoop(shares, prime, j, m + 1,
                            mod(numerator * shares[m].x, prime),
                            mod(denominator * diff, prime))

\* The outer loop of reconstructSecret from share j on.
RECURSIVE SecretLoop(_, _, _, _)
SecretLoop(shares, prime, j, secret) ==
    IF j > Len(shares) THEN Value(secret)
    ELSE LET b == BasisLoop(shares, prime, j, 1, 1, 1)
             i == modInverse(b.den, prime)
         IN  IF ~b.ok THEN Error("Invalid shares: Duplicate x-coordinate")
             ELSE IF i.kind = "error" THEN i
             ELSE LET term == mod(mod(shares[j].y * i.val, prime) * b.num, prime)
                  IN  SecretLoop(shares, prime, j + 1, mod(secret + term, prime))

reconstructSecret(shares, prime) ==
    IF Len(shares) = 0 THEN Error("No shares provided for reconstruction.")
    ELSE SecretLoop(shares, prime, 1, 0)

\* --------------------------------------------- exact interpolation

\* The inner loop of lagrangeInterpolationAtZero over j # i, from j on.
RECURSIVE ProductLoop(_, _, _, _, _)
ProductLoop(points, i, j, num, den) ==
    IF j > Len(points) THEN <<num, den>>
    ELSE IF j = i THEN ProductLoop(points, i, j + 1, num, den)
    ELSE ProductLoop(points, i, j + 1,
                     num * (-points[j][1]), den * (points[i][1] - points[j][1]))

\* The outer loop from point i on; a BigInt division by zero throws.
RECURSIVE TermLoop(_, _, _)
TermLoop(points, i, result) ==
    IF i > Len(points) THEN Value(result)
    ELSE LET nd == ProductLoop(points, i, 1, 1, 1)
         IN  IF nd[2] = 0 THEN Error("RangeError: Division by zero")
             ELSE TermLoop(points, i + 1,
                           result + BigIntDiv(points[i][2] * nd[1], nd[2]))

lagrangeInterpolationAtZero(points) == TermLoop(points, 1, 0)

\* ------------------------------------------ interpolator specification
\* Inputs: a prime, a polynomial (coefficients in [0, prime), constant term
\* first) and the x-coordinates, ascending as both callers sort them.

IsPrime(p) == p > 1 /\ \A d \in 2..(p - 1) : p % d # 0
Primes == {p \in 3..MaxPrime : IsPrime(p)}

RECURSIVE PolyEval(_, _, _)
PolyEval(coeffs, x, i) ==
    IF i > Len(coeffs) THEN 0 ELSE coeffs[i] + x * PolyEval(coeffs, x, i + 1)

Ascending(xs) == \A i \in 1..(Len(xs) - 1) : xs[i] <= xs[i + 1]

\* The points handed to the exact interpolator and the shares handed to the
\* modular one.
PointsOf(in) == [i \in 1..Len(in.xs) |-> <<in.xs[i], PolyEval(in.coeffs, in.xs[i], 1)>>]
SharesOf(in) ==
    [i \in 1..Len(in.xs) |->
        [x |-> in.xs[i], y |-> PolyEval(in.coeffs, in.xs[i], 1) % in.prime]]

InitInterp ==
    /\ \E p \in Primes, k \in 2..MaxK :
          \E c \in [1..k -> 0..(p - 1)], xs \in [1..k -> 0..MaxX] :
             /\ Ascending(xs)
             /\ input = [tag |-> "interp", prime |-> p, coeffs |-> c, xs |-> xs]
    /\ exactOut = Pending
    /\ modOut = Pending
    /\ inv = InvIdle

LagrangeCall ==
    /\ input.tag = "interp"
    /\ exactOut = Pending
    /\ exactOut' = lagrangeInterpolationAtZero(PointsOf(input))
    /\ UNCHANGED <<input, modOut, inv>>

ReconstructSecretCall ==
    /\ input.tag = "interp"
    /\ modOut = Pending
    /\ modOut' = reconstructSecret(SharesOf(input), input.prime)
    /\ UNCHANGED <<input, exactOut, inv>>

NextInterp == LagrangeCall \/ ReconstructSecretCall

SpecInterp == InitInterp /\ [][NextInterp]_vars

\* ------------------------------------------------------- orchestration
\* A parsed input: n, k and the share entries in the order of the JSON text.
\* An entry is [key, base, value]; a key is [x, pad]: the decimal numeral of
\* x behind pad leading zeros ("2", "02", "002"), which parseInt(key) and
\* BigInt(key) both read as x.

\* The indices of xs in ascending order of xs, equal elements in their
\* order in xs: Array.prototype.sort under a comparator a.x - b.x.
RECURSIVE InsertIndex(_, _, _)
InsertIndex(sorted, i, xs) ==
    IF sorted = <<>> THEN <<i>>
    ELSE IF xs[sorted[Len(sorted)]] <= xs[i] THEN Append(sorted, i)
    ELSE Append(InsertIndex(SubSeq(sorted, 1, Len(sorted) - 1), i, xs),
                sorted[Len(sorted)])

RECURSIVE SortedIndices(_, _)
SortedIndices(xs, n) ==
    IF n = 0 THEN <<>> ELSE InsertIndex(SortedIndices(xs, n - 1), n, xs)

SortByX(seq, xs) ==
    LET order == SortedIndices(xs, Len(xs)) IN [i \in 1..Len(seq) |-> seq[order[i]]]

\* array.slice(0, k) for k >= 0
Slice(seq, k) == SubSeq(seq, 1, IF k < Len(seq) THEN k ELSE Len(seq))

IsIndexKey(e) == e.key.pad = 0
IsNameKey(e) == e.key.pad # 0
KeyX(seq) == [i \in 1..Len(seq) |-> seq[i].key.x]

\* for (const key in data): the properties of the parsed object, integer
\* keys first in ascending numeric order, then the other keys in the order
\* they were created.
ForIn(entries) ==
    LET ints == SelectSeq(entries, IsIndexKey)
    IN  SortByX(ints, KeyX(ints)) \o SelectSeq(entries, IsNameKey)

\* parseInput's loop from entry i on: a throw of convertToDecimal ends it.
RECURSIVE ParseLoop(_, _, _)
ParseLoop(es, i, points) ==
    IF i > Len(es) THEN [ok |-> TRUE, points |-> points, err |-> ""]
    ELSE LET y == convertToDecimal(es[i].value, es[i].base)
         IN  IF y.kind = "error" THEN [ok |-> FALSE, points |-> <<>>, err |-> y.err]
             ELSE ParseLoop(es, i + 1, Append(points, <<es[i].key.x, y.val>>))

PointX(points) == [i \in 1..Len(points) |-> points[i][1]]

\* parseInput: decode every entry, sort by x, keep the first k.
parseInput(data) ==
    LET r == ParseLoop(ForIn(data.entries), 1, <<>>)
    IN  IF ~r.ok THEN r
        ELSE [r EXCEPT !.points = Slice(SortByX(r.points, PointX(r.points)), data.k)]

\* The body of files.forEach: parseInput, then lagrangeInterpolationAtZero.
RunFile(data) ==
    LET r == parseInput(data)
    IN  IF ~r.ok THEN Error(r.err) ELSE lagrangeInterpolationAtZero(r.points)

\* processTestCase's loop from entry i on: a share with a bad base or a
\* value that fails to decode is skipped.
RECURSIVE CollectLoop(_, _, _)
CollectLoop(es, i, shares) ==
    IF i > Len(es) THEN shares
    ELSE IF es[i].base < MinBase \/ es[i].base > MaxBase
         THEN CollectLoop(es, i + 1, shares)
    ELSE LET y == decodeYValue(es[i].value, es[i].base)
         IN  IF y.kind = "error" THEN CollectLoop(es, i + 1, shares)
             ELSE CollectLoop(es, i + 1,
                              Append(shares, [x |-> es[i].key.x, y |-> y.val]))

ShareX(shares) == [i \in 1..Len(shares) |-> shares[i].x]

\* processTestCase: check n and k, collect the shares, check their count,
\* sort, reconstruct from the first k.
processTestCase(data, prime) ==
    IF data.n < 1 THEN Error("Invalid 'n'")
    ELSE IF data.k < 2 \/ data.k > data.n THEN Error("Invalid 'k'")
    ELSE LET shares == CollectLoop(ForIn(data.entries), 1, <<>>)
         IN  IF Len(shares) < data.k THEN Error("Insufficient valid shares")
             ELSE reconstructSecret(Slice(SortByX(shares, ShareX(shares)), data.k),
                                    prime)

\* ------------------------------------------- orchestration specification

Keys == {[x |-> 1, pad |-> 0], [x |-> 2, pad |-> 0], [x |-> 3, pad |-> 0],
         [x |-> 2, pad |-> 1], [x |-> 2, pad |-> 2]}

\* base and value of an entry: two decimal values, a hexadecimal value, a
\* value with a digit that is none of its base, and a base out of range.
Encodings == {[base |-> 10, value |-> <<"3">>], [base |-> 10, value |-> <<"7">>],
              [base |-> 16, value |-> <<"a">>], [base |-> 8, value |-> <<"9">>],
              [base |-> 1, value |-> <<"1">>]}

Entries == [key : Keys, base : {c.base : c \in Encodings},
            value : {c.value : c \in Encodings}]

DistinctKeys(es) == \A i, j \in 1..Len(es) : i # j => es[i].key # es[j].key
WellEncoded(es) ==
    \A i \in 1..Len(es) : [base |-> es[i].base, value |-> es[i].value] \in Encodings

MaxEntries == 3
MaxN == 3
ReconPrimes == {7}

InitRecon ==
    /\ \E len \in 0..MaxEntries, n \in 2..MaxN, k \in 1..(MaxN + 1) :
          \E es \in [1..len -> Entries] :
             /\ DistinctKeys(es)
             /\ WellEncoded(es)
             /\ \E p \in ReconPrimes :
                   input = [tag |-> "recon", n |-> n, k |-> k, entries |-> es,
                            prime |-> p]
    /\ exactOut = Pending
    /\ modOut = Pending
    /\ inv = InvIdle

RunFileCall ==
    /\ input.tag = "recon"
    /\ exactOut = Pending
    /\ exactOut' = RunFile(input)
    /\ UNCHANGED <<input, modOut, inv>>

ProcessTestCaseCall ==
    /\ input.tag = "recon"
    /\ modOut = Pending
    /\ modOut' = processTestCase(input, input.prime)
    /\ UNCHANGED <<input, exactOut, inv>>

NextRecon == RunFileCall \/ ProcessTestCaseCall

SpecRecon == InitRecon /\ [][NextRecon]_vars

\* ------------------------------------------------------ the whole model

Init == InitDecode \/ InitInverse \/ InitInterp \/ InitRecon

Next == NextDecode \/ NextInverse \/ NextInterp \/ NextRecon

Spec == Init /\ [][Next]_vars

\* ================================================================ claims

\* The positional value of a digit string, by multiply-by-base-and-add.
RECURSIVE Positional(_, _, _, _)
Positional(value, base, i, acc) ==
    IF i > Len(value) THEN acc
    ELSE Positional(value, base, i + 1, acc * base + DigitVal(value[i]))

AllDigitsOf(value, base) == \A i \in 1..Len(value) : DigitVal(value[i]) < base
BaseInRange(base) == base >= MinBase /\ base <= MaxBase
WellFormedValue(value, base) ==
    BaseInRange(base) /\ value # <<>> /\ AllDigitsOf(value, base)

Returned(out) == out.kind = "value"
Threw(out) == out.kind = "error"
Done(out) == out # Pending

PairwiseDistinct(xs) == \A i, j \in 1..Len(xs) : i # j => xs[i] # xs[j]
PairwiseDistinctMod(xs, p) ==
    \A i, j \in 1..Len(xs) : i # j => xs[i] % p # xs[j] % p

\* C1: the exact interpolator returns P(0) for the points (x_i, P(x_i)) of
\* every integer polynomial P of degree k-1 at k pairwise distinct x.
C1_ExactRecoversConstantTerm ==
    (/\ input.tag = "interp"
     /\ Done(exactOut)
     /\ input.coeffs[Len(input.coeffs)] # 0
     /\ PairwiseDistinct(input.xs))
    => exactOut = Value(input.coeffs[1])

\* C2: the modular interpolator returns P(0) mod p, a value in [0, p), for
\* the shares (x_i, P(x_i) mod p) of every polynomial P with coefficients in
\* [0, p) at k x-coordinates pairwise distinct modulo the prime p.
C2_ModularRecoversConstantTerm ==
    (/\ input.tag = "interp"
     /\ Done(modOut)
     /\ PairwiseDistinctMod(input.xs, input.prime))
    => /\ modOut = Value(input.coeffs[1] % input.prime)
       /\ modOut.val \in 0..(input.prime - 1)

\* C2's case: a polynomial of degree 2 with a nonzero constant term,
\* reconstructed from three shares, one of them at an x beyond the prime.
C2_Witness ==
    /\ input.tag = "interp"
    /\ Returned(modOut)
    /\ Len(input.xs) = 3
    /\ input.coeffs[3] # 0
    /\ input.coeffs[1] # 0
    /\ PairwiseDistinctMod(input.xs, input.prime)
    /\ \E i \in 1..3 : input.xs[i] > input.prime

\* C3: for a base in [2,36] and a non-empty string of digits of that base,
\* each path's decoder returns the string's positional value.
C3_DecodePositional ==
    (input.tag = "decode" /\ WellFormedValue(input.value, input.base))
    => /\ Done(exactOut)
          => exactOut = Value(Positional(input.value, input.base, 1, 0))
       /\ Done(modOut)
          => modOut = Value(Positional(input.value, input.base, 1, 0))

\* C4: for a base in [2,36], each path's decoder fails on the empty string
\* and on a string with a character that is no digit of the base.
C4_DecodeRejects ==
    (/\ input.tag = "decode"
     /\ BaseInRange(input.base)
     /\ ~WellFormedValue(input.value, input.base))
    => /\ Done(exactOut) => Threw(exactOut)
       /\ Done(modOut) => Threw(modOut)

InverseEnded == inv.pc \in {"returned", "thrown"}

C5_Safety ==
    (input.tag = "inverse" /\ InverseEnded /\ IsPrime(input.m))
    => /\ (1 <= input.a /\ input.a < input.m)
          => /\ inv.pc = "returned"
             /\ modOut = Value(inv.ret)
             /\ (input.a * inv.ret) % input.m = 1
       /\ input.a % input.m = 0
          => inv.pc = "thrown" /\ Threw(modOut)

\* C5: for a prime p, modInverse(a, p) ends; for 1 <= a < p it returns r
\* with (a * r) mod p = 1, and for a congruent to 0 it throws.
C5_ModInverse == [](C5_Safety) /\ <>(IsPrime(input.m) => InverseEnded)

\* C5's case: an inverse found past the first candidates of a prime modulus.
C5_Witness ==
    /\ input.tag = "inverse"
    /\ inv.pc = "returned"
    /\ IsPrime(input.m)
    /\ input.a > 1
    /\ inv.ret > 2

\* C6: the exact interpolator throws when two points share an x, and the
\* modular one when two shares have x congruent modulo the prime.
C6_DegenerateShares ==
    input.tag = "interp"
    => /\ (Done(exactOut) /\ ~PairwiseDistinct(input.xs))
          => exactOut = Error("RangeError: Division by zero")
       /\ (Done(modOut) /\ ~PairwiseDistinctMod(input.xs, input.prime))
          => modOut = Error("Invalid shares: Duplicate x-coordinate")

\* C6's case: both interpolators have thrown on shares that hold a repeated
\* x and two different x congruent modulo the prime.
C6_Witness ==
    /\ input.tag = "interp"
    /\ Threw(exactOut)
    /\ Threw(modOut)
    /\ ~PairwiseDistinct(input.xs)
    /\ \E i, j \in 1..Len(input.xs) :
          input.xs[i] # input.xs[j] /\ input.xs[i] % input.prime = input.xs[j] % input.prime

WellFormedEntry(e) == WellFormedValue(e.value, e.base)
WellFormedCount(es) == Len(SelectSeq(es, WellFormedEntry))
ThresholdValid(data) == data.k >= 2 /\ data.k <= data.n

\* C7: with a valid threshold and fewer than k shares that pass base
\* checking and decoding, neither path produces a secret, and the modular
\* path reports insufficient shares.
C7_InsufficientShares ==
    (/\ input.tag = "recon"
     /\ ThresholdValid(input)
     /\ WellFormedCount(input.entries) < input.k)
    => /\ Done(exactOut) => Threw(exactOut)
       /\ Done(modOut) => modOut = Error("Insufficient valid shares")

Permutations(n) == {f \in [1..n -> 1..n] : \A i, j \in 1..n : i # j => f[i] # f[j]}
Permuted(data, f) ==
    [data EXCEPT !.entries = [i \in 1..Len(data.entries) |-> data.entries[f[i]]]]

\* C8: every permutation of the input's entries gives the same outcome.
C8_OrderIndependent ==
    input.tag = "recon"
    => \A f \in Permutations(Len(input.entries)) :
          /\ Done(exactOut) => RunFile(Permuted(input, f)) = exactOut
          /\ Done(modOut)
             => processTestCase(Permuted(input, f), input.prime) = modOut

\* C9: with a valid threshold and at least k well-formed shares, all at
\* different x, malformed shares do not keep either path from a secret.
C9_MalformedSharesDropped ==
    (/\ input.tag = "recon"
     /\ ThresholdValid(input)
     /\ WellFormedCount(input.entries) >= input.k
     /\ PairwiseDistinctMod(KeyX(input.entries), input.prime))
    => /\ Done(exactOut) => Returned(exactOut)
       /\ Done(modOut) => Returned(modOut)

\* C10: with k < 2 or k > n neither path produces a secret, and the
\* modular path reports the invalid threshold.
C10_ThresholdFirst ==
    (input.tag = "recon" /\ ~ThresholdValid(input))
    => /\ Done(exactOut) => Threw(exactOut)
       /\ Done(modOut) => modOut = Error("Invalid 'k'")

====
